---- MODULE Spec2Model ----
(***************************************************************************)
(* Model of package pgtest (kr/pgtest): Start / Stop / maybeInitdb.        *)
(*                                                                         *)
(* The repository carries two generations of the package:                  *)
(*   "pgtest_go" : src/pgtest.go (both revisions in that file behave the   *)
(*                 same here: global socket /tmp/.s.PGSQL.5432, constant   *)
(*                 URL, overrides appended to the template, no initdbOk)   *)
(*   "part_000"  : src/unnamed/part_000 (per-instance socket directory,    *)
(*                 pg.URL, initdbOk flag, RemoveAll after a failed initdb) *)
(* The generation is fixed in Init and never changes.                      *)
(*                                                                         *)
(* Every caller is one test goroutine.  t.Fatal ends the goroutine         *)
(* (runtime.Goexit), so a caller that reported a failure inside Start      *)
(* never continues Start; sync.Once marks itself done also when its body   *)
(* leaves through Goexit.  Every system call and subprocess may fail; the  *)
(* outcome is drawn with \E.                                               *)
(***************************************************************************)
EXTENDS Integers, FiniteSets, Sequences, TLC

\* ---- bounds -------------------------------------------------------------
MaxStops == 2            \* Stop calls issued on one handle

\* ---- program constants --------------------------------------------------
MaxAttempts_off == 20 + 1
MaxAttempts == 20        \* for n := 0; n < 20; n++
SleepMs == 50            \* time.Sleep(50 * time.Millisecond)

Callers == {1, 2}           \* test goroutines calling Start in one process
DirNames == Callers         \* names ioutil.TempDir can hand out
Tmp == 0                    \* the directory /tmp of the global socket
SockDirs == {Tmp} \cup DirNames
Variants == {"pgtest_go", "part_000"}
Pgtestdata == 0 - 1         \* the template directory pgtestdata, as a place to write to

VARIABLES
  variant,     \* which generation of the package runs
  once,        \* sync.Once: "idle", "running", "done"
  runner,      \* caller whose once.Do ran maybeInitdb (0: nobody yet)
  initdbOk,    \* package variable initdbOk (part_000)
  postgres,    \* package variable postgres: "" or the resolved path
  tmpl,        \* template directory pgtestdata: "absent", "partial", "initialized"
  tmplConf,    \* overrides appended to the template's postgresql.conf
  created,     \* os.Mkdir of the template succeeded in this process
  bodyRuns,    \* number of executions of maybeInitdb
  initdbRuns,  \* number of executions of the initdb subprocess
  provResult,  \* outcome of maybeInitdb: "none", "ok", "failed"
  pc,          \* position of each caller
  dir,         \* pg.dir of each caller (0: not assigned)
  url,         \* socket directory the caller's connection URL names (-1: none)
  n,           \* loop variable of the readiness loop
  checks,      \* os.Stat(sock) calls made by the readiness loop
  waited,      \* milliseconds slept by the readiness loop
  failure,     \* message of the t.Fatal the caller ran into ("" if none)
  proc,        \* pg.cmd process: "none", "running", "exited"
  listening,   \* the engine process created its socket
  signalled,   \* the engine process was sent os.Interrupt
  launches,    \* cmd.Start calls that succeeded for this caller
  stops,       \* Stop calls issued on the caller's handle
  lastSig,     \* outcome of Signal in the current Stop call
  lastRm,      \* outcome of RemoveAll in the current Stop call
  usedNames,   \* directory names already handed out by TempDir
  dirExists,   \* working directory exists
  dirContent,  \* what cp put there: "empty", "partial", "initialized"
  dirConf,     \* instance overrides appended to the copy's postgresql.conf
  sock         \* socket file .s.PGSQL.5432 exists in that directory

procVars == <<variant, once, runner, initdbOk, postgres, tmpl, tmplConf, created,
              bodyRuns, initdbRuns, provResult>>
callVars == <<pc, dir, url, n, checks, waited, failure, launches, stops,
              lastSig, lastRm>>
engVars == <<proc, listening, signalled>>
fsVars == <<usedNames, dirExists, dirContent, dirConf, sock>>
vars == <<procVars, callVars, engVars, fsVars>>

\* ---- helpers ------------------------------------------------------------

\* directory whose socket Start polls and the engine binds
SockDir(v, d) == IF v = "part_000" THEN d ELSE Tmp

\* connection descriptor: pgtest.go's constant URL names /tmp, part_000's
\* pg.URL names pg.dir; the descriptor is represented by that directory
URLDir(v, d) == IF v = "part_000" THEN d ELSE Tmp

\* first step of Start after once.Do returned
AfterOnce(v) == IF v = "part_000" THEN "check" ELSE "tempdir"

\* first step of maybeInitdb
FirstInit(v) == IF v = "part_000" THEN "m_pgconfig" ELSE "m_mkdir"

\* sync.Once runs f only while it has not been run
OnceFree_rerun(o) == o # "running"
OnceFree(o) == o = "idle"
OnceDone_early(o) == o # "idle"
OnceDone(o) == o = "done"

\* ioutil.TempDir returns a name that does not exist yet
FreshNames_any(used) == DirNames
FreshNames(used) == DirNames \ used

\* os.RemoveAll: nil when the path is gone afterwards; a path that is
\* already missing is no error, only removing an existing tree can fail
RemoveAllOk_strict(exists, fault) == exists /\ ~fault
RemoveAllOk(exists, fault) == ~(exists /\ fault)

\* where Stop goes after Process.Signal
AfterSignal_ignore(ok) == "stop_rm"
AfterSignal(ok) == IF ok THEN "stop_rm" ELSE "stopfailed"

\* where Stop goes after os.RemoveAll
AfterRemove_ignore(ok) == "stopped"
AfterRemove(ok) == IF ok THEN "stopped" ELSE "stopfailed"

\* os.IsExist(err) in maybeInitdb: part_000 sets initdbOk = true and returns,
\* pgtest.go just returns
ExistOk_forget(v, cur) == cur
ExistOk(v, cur) == IF v = "part_000" THEN TRUE ELSE cur

\* where Start goes after cp: t.Fatal("copy:", err) on failure, else the
\* overrides (part_000) or the launch (pgtest.go)
AfterCopy_goon(v, ok) == IF v = "part_000" THEN "conf" ELSE "launch"
AfterCopy_noconf(v, ok) == IF ok THEN "launch" ELSE "failed"
AfterCopy(v, ok) ==
  IF ok THEN (IF v = "part_000" THEN "conf" ELSE "launch") ELSE "failed"

\* directory of the postgresql.conf Start appends the overrides to:
\* filepath.Join(pg.dir, "postgresql.conf")
ConfDir_template(d) == Pgtestdata
ConfDir(d) == d

\* where Start goes when the readiness loop runs out: t.Fatal, no handle
AfterTimeout_return == "ready"
AfterTimeout == "failed"

\* Stop calls os.RemoveAll right after Signal, whatever the process does;
\* there is no cmd.Wait in between
MayRemove_wait(p) == p # "running"
MayRemove(p) == TRUE

\* t.Fatal inside Start or maybeInitdb
Fatal(c, msg) ==
  /\ pc' = [pc EXCEPT ![c] = "failed"]
  /\ failure' = [failure EXCEPT ![c] = msg]

\* ---- state after construction --------------------------------------------
Init ==
  /\ variant \in Variants
  /\ once = "idle"
  /\ runner = 0
  /\ initdbOk = FALSE
  /\ postgres = ""
  /\ tmpl \in {"absent", "partial", "initialized"}
  /\ tmplConf = (variant = "pgtest_go" /\ tmpl = "initialized")
  /\ created = FALSE
  /\ bodyRuns = 0
  /\ initdbRuns = 0
  /\ provResult = "none"
  /\ pc = [c \in Callers |-> "idle"]
  /\ dir = [c \in Callers |-> 0]
  /\ url = [c \in Callers |-> -1]
  /\ n = [c \in Callers |-> 0]
  /\ checks = [c \in Callers |-> 0]
  /\ waited = [c \in Callers |-> 0]
  /\ failure = [c \in Callers |-> ""]
  /\ proc = [c \in Callers |-> "none"]
  /\ listening = [c \in Callers |-> FALSE]
  /\ signalled = [c \in Callers |-> FALSE]
  /\ launches = [c \in Callers |-> 0]
  /\ stops = [c \in Callers |-> 0]
  /\ lastSig = [c \in Callers |-> "none"]
  /\ lastRm = [c \in Callers |-> "none"]
  /\ usedNames = {}
  /\ dirExists = [d \in DirNames |-> FALSE]
  /\ dirContent = [d \in DirNames |-> "empty"]
  /\ dirConf = [d \in DirNames |-> FALSE]
  /\ sock = [d \in SockDirs |-> FALSE]

\* ---- once.Do ------------------------------------------------------------

\* Start: once.Do finds the Once unused and runs maybeInitdb
OnceDoRun(c) ==
  /\ pc[c] = "idle"
  /\ OnceFree(once)
  /\ once' = "running"
  /\ runner' = c
  /\ bodyRuns' = bodyRuns + 1
  /\ pc' = [pc EXCEPT ![c] = FirstInit(variant)]
  /\ UNCHANGED <<variant, initdbOk, postgres, tmpl, tmplConf, created,
                 initdbRuns, provResult>>
  /\ UNCHANGED <<dir, url, n, checks, waited, failure, launches, stops,
                 lastSig, lastRm>>
  /\ UNCHANGED <<engVars, fsVars>>

\* Start: once.Do finds the Once done and returns at once; while another
\* caller runs maybeInitdb the caller blocks (no action is enabled)
OnceDoSkip(c) ==
  /\ pc[c] = "idle"
  /\ OnceDone(once)
  /\ pc' = [pc EXCEPT ![c] = AfterOnce(variant)]
  /\ UNCHANGED <<procVars, engVars, fsVars>>
  /\ UNCHANGED <<dir, url, n, checks, waited, failure, launches, stops,
                 lastSig, lastRm>>

\* ---- maybeInitdb ----------------------------------------------------------

\* leaving maybeInitdb through t.Fatal: Goexit runs Once's deferred store
InitFatal(c, msg) ==
  /\ Fatal(c, msg)
  /\ once' = "done"
  /\ provResult' = "failed"

\* leaving maybeInitdb by return
InitReturn(c) ==
  /\ pc' = [pc EXCEPT ![c] = AfterOnce(variant)]
  /\ failure' = failure
  /\ once' = "done"
  /\ provResult' = "ok"

\* part_000: exec.Command("pg_config", "--bindir").Output()
PgConfig(c) ==
  /\ pc[c] = "m_pgconfig"
  /\ \E ok \in BOOLEAN :
       IF ok
       THEN /\ postgres' = "bindir/postgres"
            /\ pc' = [pc EXCEPT ![c] = "m_mkdir"]
            /\ UNCHANGED <<failure, once, provResult>>
       ELSE /\ InitFatal(c, "pg_config")
            /\ UNCHANGED postgres
  /\ UNCHANGED <<variant, runner, initdbOk, tmpl, tmplConf, created, bodyRuns, initdbRuns>>
  /\ UNCHANGED <<dir, url, n, checks, waited, launches, stops, lastSig, lastRm>>
  /\ UNCHANGED <<engVars, fsVars>>

\* os.Mkdir(pgtestdata, 0777) and the os.IsExist branch
Mkdir(c) ==
  /\ pc[c] = "m_mkdir"
  /\ IF tmpl # "absent"
     THEN \* os.IsExist(err): treated as an initialized template
          /\ initdbOk' = ExistOk(variant, initdbOk)
          /\ InitReturn(c)
          /\ UNCHANGED <<tmpl, created>>
     ELSE \E ok \in BOOLEAN :
          IF ok
          THEN /\ tmpl' = "partial"
               /\ created' = TRUE
               /\ pc' = [pc EXCEPT ![c] = "m_initdb"]
               /\ UNCHANGED <<initdbOk, failure, once, provResult>>
          ELSE /\ InitFatal(c, "mkdir")
               /\ UNCHANGED <<tmpl, created, initdbOk>>
  /\ UNCHANGED <<variant, runner, postgres, tmplConf, bodyRuns, initdbRuns>>
  /\ UNCHANGED <<dir, url, n, checks, waited, launches, stops, lastSig, lastRm>>
  /\ UNCHANGED <<engVars, fsVars>>

\* template after a failed initdb: part_000 calls os.RemoveAll(pgtestdata)
\* and ignores its error, pgtest.go leaves the directory in place
TemplateAfterInitdbFail_keep(v, rmOk) == "partial"
TemplateAfterInitdbFail(v, rmOk) ==
  IF v = "part_000" /\ rmOk THEN "absent" ELSE "partial"

\* exec.Command(initdb, "-D", pgtestdata).Run()
Initdb(c) ==
  /\ pc[c] = "m_initdb"
  /\ initdbRuns' = initdbRuns + 1
  /\ \E ok \in BOOLEAN, rmOk \in BOOLEAN :
       IF ok
       THEN /\ tmpl' = "initialized"
            /\ IF variant = "part_000"
               THEN /\ initdbOk' = TRUE
                    /\ InitReturn(c)
               ELSE /\ pc' = [pc EXCEPT ![c] = "m_conf"]
                    /\ UNCHANGED <<initdbOk, failure, once, provResult>>
       ELSE /\ tmpl' = TemplateAfterInitdbFail(variant, rmOk)
            /\ InitFatal(c, "initdb")
            /\ UNCHANGED initdbOk
  /\ UNCHANGED <<variant, runner, postgres, tmplConf, created, bodyRuns>>
  /\ UNCHANGED <<dir, url, n, checks, waited, launches, stops, lastSig, lastRm>>
  /\ UNCHANGED <<engVars, fsVars>>

\* pgtest.go: append conf to the template's postgresql.conf
\* (os.OpenFile, f.Write, f.Close, each followed by t.Fatal on error)
TemplateConf(c) ==
  /\ pc[c] = "m_conf"
  /\ \E r \in {"ok", "open", "write", "close"} :
       /\ tmplConf' = (r \in {"ok", "close"})
       /\ IF r = "ok" THEN InitReturn(c) ELSE InitFatal(c, "conf")
  /\ UNCHANGED <<variant, runner, initdbOk, postgres, tmpl, created, bodyRuns, initdbRuns>>
  /\ UNCHANGED <<dir, url, n, checks, waited, launches, stops, lastSig, lastRm>>
  /\ UNCHANGED <<engVars, fsVars>>

\* ---- Start ----------------------------------------------------------------

\* part_000: if !initdbOk { t.Fatal("prior initdb attempt failed") }
CheckInitdbOk(c) ==
  /\ pc[c] = "check"
  /\ IF initdbOk
     THEN /\ pc' = [pc EXCEPT ![c] = "tempdir"]
          /\ UNCHANGED failure
     ELSE Fatal(c, "prior initdb attempt failed")
  /\ UNCHANGED <<procVars, engVars, fsVars>>
  /\ UNCHANGED <<dir, url, n, checks, waited, launches, stops, lastSig, lastRm>>

\* pg.dir, err = ioutil.TempDir("", "pgtest")
TempDir(c) ==
  /\ pc[c] = "tempdir"
  /\ \/ /\ Fatal(c, "tempdir")
        /\ UNCHANGED <<dir, fsVars>>
     \/ \E d \in FreshNames(usedNames) :
          /\ dir' = [dir EXCEPT ![c] = d]
          /\ usedNames' = usedNames \cup {d}
          /\ dirExists' = [dirExists EXCEPT ![d] = TRUE]
          /\ pc' = [pc EXCEPT ![c] = "cp"]
          /\ UNCHANGED <<failure, dirContent, dirConf, sock>>
  /\ UNCHANGED <<procVars, engVars>>
  /\ UNCHANGED <<url, n, checks, waited, launches, stops, lastSig, lastRm>>

\* exec.Command("cp", "-a", pgtestdata+"/.", pg.dir).Run()
Copy(c) ==
  /\ pc[c] = "cp"
  /\ \E ok \in BOOLEAN :
       LET good == ok /\ tmpl # "absent" IN
       /\ pc' = [pc EXCEPT ![c] = AfterCopy(variant, good)]
       /\ failure' = [failure EXCEPT ![c] = IF good THEN @ ELSE "copy:"]
       /\ IF good
          THEN /\ dirContent' = [dirContent EXCEPT ![dir[c]] = tmpl]
               /\ url' = [url EXCEPT ![c] = IF variant = "part_000" THEN url[c]
                                            ELSE URLDir(variant, dir[c])]
          ELSE /\ dirContent' = [dirContent EXCEPT ![dir[c]] =
                                    IF tmpl = "absent" THEN @ ELSE "partial"]
               /\ UNCHANGED url
  /\ UNCHANGED <<procVars, engVars>>
  /\ UNCHANGED <<usedNames, dirExists, dirConf, sock>>
  /\ UNCHANGED <<dir, n, checks, waited, launches, stops, lastSig, lastRm>>

\* part_000: append the instance overrides to pg.dir/postgresql.conf
\* (os.OpenFile, conf.Execute, f.Close), then set pg.URL
InstanceConf(c) ==
  /\ pc[c] = "conf"
  /\ \E r \in {"ok", "open", "write", "close"} :
       /\ IF ConfDir(dir[c]) = Pgtestdata
          THEN /\ tmplConf' = (tmplConf \/ r \in {"ok", "close"})
               /\ UNCHANGED dirConf
          ELSE /\ dirConf' = [dirConf EXCEPT ![ConfDir(dir[c])] = (r \in {"ok", "close"})]
               /\ UNCHANGED tmplConf
       /\ IF r = "ok"
          THEN /\ pc' = [pc EXCEPT ![c] = "launch"]
               /\ url' = [url EXCEPT ![c] = URLDir(variant, dir[c])]
               /\ UNCHANGED failure
          ELSE /\ Fatal(c, "conf")
               /\ UNCHANGED url
  /\ UNCHANGED <<variant, once, runner, initdbOk, postgres, tmpl, created,
                 bodyRuns, initdbRuns, provResult>>
  /\ UNCHANGED engVars
  /\ UNCHANGED <<usedNames, dirExists, dirContent, sock>>
  /\ UNCHANGED <<dir, n, checks, waited, launches, stops, lastSig, lastRm>>

\* pg.cmd = exec.Command(postgres, "-D", pg.dir); err = pg.cmd.Start()
Launch(c) ==
  /\ pc[c] = "launch"
  /\ \E ok \in BOOLEAN :
       IF ok /\ (variant = "part_000" => postgres # "")
       THEN /\ proc' = [proc EXCEPT ![c] = "running"]
            /\ launches' = [launches EXCEPT ![c] = @ + 1]
            /\ pc' = [pc EXCEPT ![c] = "poll"]
            /\ UNCHANGED failure
       ELSE /\ Fatal(c, "starting postgres:")
            /\ UNCHANGED <<proc, launches>>
  /\ UNCHANGED <<procVars, fsVars, listening, signalled>>
  /\ UNCHANGED <<dir, url, n, checks, waited, stops, lastSig, lastRm>>

\* one turn of the readiness loop: os.Stat(sock), return pg or sleep and n++
Poll(c) ==
  /\ pc[c] = "poll"
  /\ n[c] < MaxAttempts
  /\ checks' = [checks EXCEPT ![c] = IF sock[SockDir(variant, dir[c])] THEN 0 ELSE @ + 1]
  /\ IF sock[SockDir(variant, dir[c])]
     THEN \* return pg: the loop's locals go out of scope
          /\ pc' = [pc EXCEPT ![c] = "ready"]
          /\ n' = [n EXCEPT ![c] = 0]
          /\ waited' = [waited EXCEPT ![c] = 0]
     ELSE /\ n' = [n EXCEPT ![c] = @ + 1]
          /\ waited' = [waited EXCEPT ![c] = @ + SleepMs]
          /\ UNCHANGED pc
  /\ UNCHANGED <<procVars, engVars, fsVars>>
  /\ UNCHANGED <<dir, url, failure, launches, stops, lastSig, lastRm>>

\* the loop condition n < 20 fails: t.Fatal("timeout waiting for postgres to start")
Timeout(c) ==
  /\ pc[c] = "poll"
  /\ ~(n[c] < MaxAttempts)
  /\ pc' = [pc EXCEPT ![c] = AfterTimeout]
  /\ failure' = [failure EXCEPT ![c] = "timeout waiting for postgres to start"]
  /\ UNCHANGED <<procVars, engVars, fsVars>>
  /\ UNCHANGED <<dir, url, n, checks, waited, launches, stops, lastSig, lastRm>>

\* ---- Stop -----------------------------------------------------------------

\* Stop is called on a handle Start returned (also a further time, from
\* another deferred call); its first step: pg.cmd.Process.Signal(os.Interrupt)
StopSignal(c) ==
  /\ pc[c] \in {"ready", "stopped", "stopfailed"}
  /\ stops[c] < MaxStops
  /\ stops' = [stops EXCEPT ![c] = @ + 1]
  /\ lastRm' = [lastRm EXCEPT ![c] = "none"]
  /\ \E ok \in BOOLEAN :
       /\ lastSig' = [lastSig EXCEPT ![c] = IF ok THEN "ok" ELSE "err"]
       /\ signalled' = [signalled EXCEPT ![c] = @ \/ ok]
       /\ pc' = [pc EXCEPT ![c] = AfterSignal(ok)]
       /\ failure' = [failure EXCEPT ![c] = IF ok THEN "" ELSE "postgres:"]
  /\ UNCHANGED <<procVars, fsVars, proc, listening>>
  /\ UNCHANGED <<dir, url, n, checks, waited, launches>>

\* second step of Stop: os.RemoveAll(pg.dir)
StopRemove(c) ==
  /\ pc[c] = "stop_rm"
  /\ MayRemove(proc[c])
  /\ \E fault \in BOOLEAN :
       LET exists == dirExists[dir[c]]
           ok == RemoveAllOk(exists, fault) IN
       /\ lastRm' = [lastRm EXCEPT ![c] = IF ok THEN "ok" ELSE "err"]
       /\ pc' = [pc EXCEPT ![c] = AfterRemove(ok)]
       /\ failure' = [failure EXCEPT ![c] = IF ok THEN "" ELSE "removeall"]
       /\ IF exists /\ fault
          THEN UNCHANGED <<dirExists, dirContent, dirConf, sock>>
          ELSE /\ dirExists' = [dirExists EXCEPT ![dir[c]] = FALSE]
               /\ dirContent' = [dirContent EXCEPT ![dir[c]] = "empty"]
               /\ dirConf' = [dirConf EXCEPT ![dir[c]] = FALSE]
               /\ sock' = [sock EXCEPT ![dir[c]] = FALSE]
  /\ UNCHANGED <<procVars, engVars, usedNames>>
  /\ UNCHANGED <<dir, url, n, checks, waited, launches, stops, lastSig>>

\* ---- the engine process ---------------------------------------------------

\* postgres comes up and creates .s.PGSQL.5432 in its socket directory; it
\* needs an initialized data directory and a socket path nobody holds
EngineListen(c) ==
  /\ proc[c] = "running"
  /\ ~listening[c]
  /\ dirExists[dir[c]]
  /\ dirContent[dir[c]] = "initialized"
  /\ ~sock[SockDir(variant, dir[c])]
  /\ sock' = [sock EXCEPT ![SockDir(variant, dir[c])] = TRUE]
  /\ listening' = [listening EXCEPT ![c] = TRUE]
  /\ UNCHANGED <<procVars, callVars, proc, signalled>>
  /\ UNCHANGED <<usedNames, dirExists, dirContent, dirConf>>

\* postgres exits (after the interrupt, or on its own); it unlinks its socket
EngineExit(c) ==
  /\ proc[c] = "running"
  /\ proc' = [proc EXCEPT ![c] = "exited"]
  /\ listening' = [listening EXCEPT ![c] = FALSE]
  /\ sock' = IF listening[c]
             THEN [sock EXCEPT ![SockDir(variant, dir[c])] = FALSE]
             ELSE sock
  /\ UNCHANGED <<procVars, callVars, signalled>>
  /\ UNCHANGED <<usedNames, dirExists, dirContent, dirConf>>

\* ---- specification ----------------------------------------------------------
Next ==
  \E c \in Callers :
    \/ OnceDoRun(c)
    \/ OnceDoSkip(c)
    \/ PgConfig(c)
    \/ Mkdir(c)
    \/ Initdb(c)
    \/ TemplateConf(c)
    \/ CheckInitdbOk(c)
    \/ TempDir(c)
    \/ Copy(c)
    \/ InstanceConf(c)
    \/ Launch(c)
    \/ Poll(c)
    \/ Timeout(c)
    \/ StopSignal(c)
    \/ StopRemove(c)
    \/ EngineListen(c)
    \/ EngineExit(c)

Spec == Init /\ [][Next]_vars

\* ---- properties ---------------------------------------------------------------

TimeoutMsg == "timeout waiting for postgres to start"

\* the caller's Stop call has finished (returned or ended in t.Fatal)
StopFinished(c) == pc[c] \in {"stopped", "stopfailed"}

\* the instance is launched and Stop has not been called on it
Alive(c) == pc[c] \in {"poll", "ready"}

\* C1: however many Start calls are issued, sequentially or concurrently,
\* maybeInitdb runs at most once and so does the initdb subprocess.
C1_InitAtMostOnce == bodyRuns <= 1 /\ initdbRuns <= 1

\* every caller is past once.Do and the body, with initdb, ran for one of them
C1_Witness ==
  /\ bodyRuns = 1 /\ initdbRuns = 1
  /\ \A c \in Callers : pc[c] \in {"check", "tempdir", "cp", "poll", "ready", "failed"}
  /\ \E c \in Callers : c # runner /\ pc[c] # "failed"

\* C2: once template provisioning has failed, no later Start call gets as
\* far as creating a working directory or launching an engine, and
\* provisioning is not run again.
C2_FailureObserved ==
  provResult = "failed" =>
    /\ bodyRuns <= 1
    /\ \A c \in Callers : c # runner =>
          /\ dir[c] = 0
          /\ launches[c] = 0
          /\ pc[c] # "ready"

\* C3: when template provisioning fails after this process created the
\* template directory, the directory is gone by the time the failure is
\* reported.
C3_PartialTemplateRemoved ==
  (provResult = "failed" /\ created) => tmpl = "absent"

\* C4: two instances alive at the same time have different working
\* directories, different readiness sockets and different connection
\* descriptors.
C4_Isolation ==
  \A c1, c2 \in Callers :
    (c1 # c2 /\ Alive(c1) /\ Alive(c2)) =>
      /\ dir[c1] # dir[c2]
      /\ SockDir(variant, dir[c1]) # SockDir(variant, dir[c2])
      /\ url[c1] # url[c2]

\* C5: the readiness loop makes at most 20 checks 50 ms apart; a check that
\* sees the socket returns the handle at once; the timeout is reported after
\* exactly 20 checks (1000 ms of sleeping), never earlier.
C5_State ==
  \A c \in Callers :
    /\ pc[c] = "poll" => (checks[c] <= 20 /\ n[c] = checks[c] /\ waited[c] = 50 * checks[c])
    /\ failure[c] = TimeoutMsg => (pc[c] = "failed" /\ checks[c] = 20 /\ waited[c] = 1000)

C5_Step ==
  \A c \in Callers :
    /\ (pc[c] = "poll" /\ pc'[c] = "ready") =>
          (sock[SockDir(variant, dir[c])] /\ checks[c] < 20)
    /\ (pc[c] = "poll" /\ checks[c] < 20 /\ sock[SockDir(variant, dir[c])]
          /\ <<pc[c], checks[c]>> # <<pc'[c], checks'[c]>>) => pc'[c] = "ready"
    /\ (pc[c] = "poll" /\ pc'[c] = "failed") => checks[c] = 20

C5_ReadinessBound == []C5_State /\ [][C5_Step]_vars

\* one caller timed out after its 20 checks while the other was handed its instance
C5_Witness ==
  \E c1, c2 \in Callers :
    /\ failure[c1] = TimeoutMsg /\ checks[c1] = 20
    /\ pc[c2] = "ready"

\* C6: when Stop has returned without reporting a failure, the instance's
\* working directory does not exist.
C6_StopRemovesDir ==
  \A c \in Callers : pc[c] = "stopped" => ~dirExists[dir[c]]

\* a first Stop returned on an instance whose directory had been created
C6_Witness ==
  \E c \in Callers : pc[c] = "stopped" /\ stops[c] = 1 /\ dir[c] \in usedNames

\* C7: when the interrupt fails, Stop still attempts to remove the working
\* directory.
C7_RemovalAttempted ==
  \A c \in Callers :
    (pc[c] = "stopfailed" /\ lastSig[c] = "err") => lastRm[c] # "none"

\* C8: Stop reports the signal failure when the interrupt fails, the removal
\* failure when only the removal fails, and success only when both succeeded.
C8_StopNeverMasks ==
  \A c \in Callers :
    /\ pc[c] = "stopped" =>
          (lastSig[c] = "ok" /\ lastRm[c] = "ok" /\ failure[c] = "")
    /\ (StopFinished(c) /\ lastSig[c] = "err") =>
          (pc[c] = "stopfailed" /\ failure[c] = "postgres:")
    /\ (StopFinished(c) /\ lastSig[c] = "ok" /\ lastRm[c] = "err") =>
          (pc[c] = "stopfailed" /\ failure[c] = "removeall")

\* one Stop ended on the signal failure and another on the removal failure
C8_Witness ==
  \E c1, c2 \in Callers :
    /\ pc[c1] = "stopfailed" /\ lastSig[c1] = "err"
    /\ pc[c2] = "stopfailed" /\ lastSig[c2] = "ok" /\ lastRm[c2] = "err"

\* C9 as stated: a second Stop on the same handle always ends in a reported
\* error.
C9_SecondStopIsError ==
  \A c \in Callers :
    (stops[c] >= 2 /\ StopFinished(c)) => pc[c] = "stopfailed"

\* C9 amended: Stop keeps no record of earlier calls; a second Stop reports
\* an error only if its own interrupt fails or the removal of a still
\* existing directory fails, and otherwise returns success silently.
C9_SecondStopRepeats ==
  \A c \in Callers :
    (stops[c] >= 2 /\ StopFinished(c)) =>
      /\ pc[c] = "stopfailed" <=> (lastSig[c] = "err" \/ lastRm[c] = "err")
      /\ lastRm[c] = "err" => dirExists[dir[c]]

\* a second Stop returned success on a directory that was already removed
C9_Witness ==
  \E c \in Callers : stops[c] = 2 /\ pc[c] = "stopped" /\ ~dirExists[dir[c]]

\* C10: when Start has failed after creating its working directory, that
\* directory no longer exists.
C10_NoLeakOnFailure ==
  \A c \in Callers :
    (pc[c] = "failed" /\ dir[c] # 0) => ~dirExists[dir[c]]

\* C11: when Start hands back the handle, the working directory exists as
\* a copy of the template, one engine was launched on it, the socket seen
\* by the last check is the one this instance's engine created, and the
\* descriptor names this instance's socket directory.
C11_Step ==
  \A c \in Callers :
    (pc[c] = "poll" /\ pc'[c] = "ready") =>
      /\ dirExists[dir[c]]
      /\ dirContent[dir[c]] = tmpl
      /\ launches[c] = 1
      /\ listening[c]
      /\ url[c] = SockDir(variant, dir[c])

C11_ReadyHandle == [][C11_Step]_vars

\* C12: once maybeInitdb has finished, and always for a template this
\* process did not create, nothing changes the template directory; the
\* instance overrides go only to the copy of the caller writing them.
C12_Step ==
  /\ (provResult # "none" \/ (tmpl # "absent" /\ ~created)) =>
        (tmpl' = tmpl /\ tmplConf' = tmplConf)
  /\ \A d \in DirNames :
        (dirConf'[d] /\ ~dirConf[d]) =>
           \E c \in Callers : pc[c] = "conf" /\ dir[c] = d /\ pc'[c] # "conf"

C12_TemplateImmutable == [][C12_Step]_vars

\* one instance was stopped and another has its overrides written, and the
\* template is as initdb left it
C12_Witness ==
  /\ variant = "part_000" /\ tmpl = "initialized" /\ ~tmplConf
  /\ \E c1, c2 \in Callers :
       /\ pc[c1] = "stopped"
       /\ pc[c2] = "launch" /\ dirConf[dir[c2]]

\* C13: when os.Mkdir finds the template directory existing, maybeInitdb
\* returns success without running initdb and without touching the
\* directory, and Start goes on to provision the instance.
C13_State ==
  (provResult = "ok" /\ ~created) =>
    /\ initdbRuns = 0
    /\ variant = "part_000" => initdbOk
    /\ \A c \in Callers : failure[c] # "prior initdb attempt failed"

C13_Step ==
  \A c \in Callers :
    (pc[c] = "m_mkdir" /\ tmpl # "absent" /\ pc'[c] # "m_mkdir") =>
      /\ pc'[c] \in {"check", "tempdir"}
      /\ provResult' = "ok"
      /\ initdbRuns' = initdbRuns
      /\ tmpl' = tmpl /\ tmplConf' = tmplConf

C13_ExistingTemplateSkips == []C13_State /\ [][C13_Step]_vars

\* the caller that found the directory existing is copying it
C13_Witness ==
  /\ provResult = "ok" /\ ~created /\ initdbRuns = 0
  /\ runner \in Callers /\ pc[runner] = "cp"

\* C14: a Start that fails while creating its directory, copying, or
\* writing the overrides launches no engine and leaves the process-wide
\* state (Once, initdbOk, postgres, template) as it was, so that another
\* Start can still succeed.
C14_State ==
  \A c \in Callers :
    failure[c] \in {"tempdir", "copy:", "conf"} =>
      (launches[c] = 0 /\ proc[c] = "none" /\ pc[c] = "failed")

C14_Step ==
  \A c \in Callers :
    (pc[c] \in {"tempdir", "cp", "conf"} /\ pc'[c] = "failed") =>
      /\ <<once, initdbOk, postgres, tmpl, tmplConf, provResult>>' =
           <<once, initdbOk, postgres, tmpl, tmplConf, provResult>>
      /\ proc' = proc

C14_ProvisionFailureLocal == []C14_State /\ [][C14_Step]_vars

\* one Start failed in cp and the other caller's Start returned its handle
C14_Witness ==
  \E c1, c2 \in Callers :
    failure[c1] = "copy:" /\ launches[c1] = 0 /\ pc[c2] = "ready"

\* position in the lifecycle
LifeRank(p) ==
  CASE p = "idle" -> 0
    [] p = "m_pgconfig" -> 1
    [] p = "m_mkdir" -> 2
    [] p = "m_initdb" -> 3
    [] p = "m_conf" -> 4
    [] p = "check" -> 5
    [] p = "tempdir" -> 6
    [] p = "cp" -> 7
    [] p = "conf" -> 8
    [] p = "launch" -> 9
    [] p = "poll" -> 10
    [] p = "ready" -> 11
    [] p = "stop_rm" -> 12
    [] p = "stopped" -> 13
    [] OTHER -> 14

\* C15: an instance goes through create directory, copy, overrides, launch,
\* readiness wait, ready, stopped in this order, with failure possible at
\* each step; overrides are written after the copy and before the launch,
\* polling starts only after the launch, and Start gives control back only
\* with the handle (ready) or through t.Fatal (failed).
C15_State ==
  \A c \in Callers :
    /\ pc[c] = "conf" => (dirContent[dir[c]] # "empty" /\ proc[c] = "none")
    /\ (pc[c] \in {"launch", "poll"} /\ variant = "part_000") =>
          (dirConf[dir[c]] /\ dirContent[dir[c]] # "empty")
    /\ pc[c] = "launch" => proc[c] = "none"
    /\ pc[c] \in {"poll", "ready"} => launches[c] = 1
    /\ stops[c] > 0 => launches[c] = 1

C15_Step ==
  \A c \in Callers :
    pc'[c] # pc[c] =>
      /\ pc[c] # "failed"
      /\ \/ pc'[c] \in {"failed", "stopfailed"}
         \/ pc[c] \in {"stopped", "stopfailed"} /\ pc'[c] = "stop_rm"
         \/ LifeRank(pc'[c]) > LifeRank(pc[c])
      /\ pc'[c] = "poll" => pc[c] = "launch"
      /\ pc'[c] = "ready" => pc[c] = "poll"
      /\ pc'[c] = "stop_rm" => pc[c] \in {"ready", "stopped", "stopfailed"}
      /\ pc'[c] = "stopped" => pc[c] = "stop_rm"

C15_LifecycleOrder == []C15_State /\ [][C15_Step]_vars

\* an instance of part_000 went through the whole lifecycle once
C15_Witness ==
  \E c \in Callers :
    variant = "part_000" /\ pc[c] = "stopped" /\ stops[c] = 1 /\ launches[c] = 1

\* C16: every Start launches at most one engine, and no two launched
\* engines have the same data directory.
C16_OneProcessPerDir ==
  /\ \A c \in Callers :
       /\ launches[c] <= 1
       /\ launches[c] = 1 => dir[c] \in DirNames
       /\ proc[c] # "none" <=> launches[c] = 1
  /\ \A c1, c2 \in Callers :
       (c1 # c2 /\ launches[c1] = 1 /\ launches[c2] = 1) => dir[c1] # dir[c2]

\* two engines run at the same time, each launched by its own Start
C16_Witness ==
  \E c1, c2 \in Callers :
    c1 # c2 /\ proc[c1] = "running" /\ proc[c2] = "running"

\* C17: a Start whose readiness wait ran out ends in t.Fatal; it has not
\* signalled the engine it launched, and as no handle was returned, no Stop
\* is ever called on that instance.
C17_TimeoutLeavesProcess ==
  \A c \in Callers :
    (checks[c] = 20 /\ pc[c] # "poll") =>
      /\ pc[c] = "failed"
      /\ failure[c] = "timeout waiting for postgres to start"
      /\ proc[c] # "none"
      /\ ~signalled[c]
      /\ stops[c] = 0

\* after the timeout the engine is still running, never interrupted
C17_Witness ==
  \E c \in Callers :
    /\ pc[c] = "failed" /\ checks[c] = 20
    /\ proc[c] = "running" /\ ~signalled[c]

\* C18: within Stop the interrupt comes first and the removal second, and
\* the removal can always go ahead, whatever the engine process is doing.
C18_StopDoesNotWait ==
  \A c \in Callers :
    /\ pc[c] = "stop_rm" =>
         /\ lastSig[c] = "ok" /\ signalled[c] /\ lastRm[c] = "none"
         /\ ENABLED StopRemove(c)
    /\ lastRm[c] # "none" => lastSig[c] = "ok"

\* Stop has returned and the directory is gone while the engine still runs
C18_Witness ==
  \E c \in Callers :
    /\ pc[c] = "stopped" /\ dir[c] \in DirNames /\ ~dirExists[dir[c]]
    /\ signalled[c] /\ proc[c] = "running"

\* C19: a caller gets past once.Do only when maybeInitdb has finished;
\* while it runs, every other caller still waits in once.Do, so none is
\* copying the template.
C19_NoCopyBeforeProvisioned ==
  /\ \A c \in Callers :
       pc[c] \in {"check", "tempdir", "cp", "conf", "launch", "poll", "ready",
                  "stop_rm", "stopped", "stopfailed"} =>
         (once = "done" /\ provResult # "none")
  /\ once = "running" =>
       /\ runner \in Callers
       /\ \A c \in Callers : c # runner => pc[c] = "idle"

\* a caller other than the one that ran initdb is copying the finished template
C19_Witness ==
  \E c \in Callers :
    /\ c # runner /\ pc[c] = "cp"
    /\ created /\ initdbRuns = 1 /\ tmpl = "initialized"

\* C20: whenever Start has copied the template, what it copied is a
\* template on which initdb completed, also when the directory was there
\* before this process looked (left by another process).
C20_CopiedTemplateInitialized ==
  \A c \in Callers :
    pc[c] \in {"conf", "launch", "poll", "ready"} =>
      dirContent[dir[c]] = "initialized"

TypeOK ==
  /\ variant \in Variants
  /\ once \in {"idle", "running", "done"}
  /\ pc \in [Callers -> {"idle", "m_pgconfig", "m_mkdir", "m_initdb", "m_conf",
                         "check", "tempdir", "cp", "conf", "launch", "poll",
                         "ready", "stop_rm", "stopped", "stopfailed", "failed"}]
  /\ dir \in [Callers -> {0} \cup DirNames]
  /\ n \in [Callers -> 0..MaxAttempts]

====
